---------------------------- MODULE Spec2Model ----------------------------
(***************************************************************************)
(* Model of the hydraulic-maintenance ingestion and validation pipeline:   *)
(*   src/src/ingest/load_data.py          _build_flat_df                   *)
(*   src/src/validation/validate_data.py  basic_stats, evaluate_thresholds,*)
(*                                        load_group_df, main              *)
(* Five specifications share the module, one per unit of the code:         *)
(*   SpecFlat   the Flattener, stepped through its three numbered blocks   *)
(*   SpecStats  basic_stats on small multi-column tables                   *)
(*   SpecIqr    basic_stats on one longer column (the IQR rule)            *)
(*   SpecEval   evaluate_thresholds                                        *)
(*   SpecRun    main() of validate_data.py, one loop iteration per step    *)
(***************************************************************************)
EXTENDS Integers, Sequences, FiniteSets, TLC

VARIABLES
    \* ---- _build_flat_df ----
    raw,                \* RAW_DIR: sensor id -> matrix read by pd.read_csv
    sensors,            \* the argument `sensors`
    fi,                 \* position of the for-loop over `sensors` (1-based)
    arrays,             \* the dict `arrays`: column name -> 1-D vector
    samples_per_cycle,  \* {} is None, {v} is the int v
    n_cycles,           \* {} is None, {v} is the int v
    fpc,                \* "read" | "frame" | "done"
    flat,               \* what the call produced: a table or an exception
    \* ---- basic_stats ----
    df,                 \* the DataFrame handed to basic_stats
    stats,              \* its result: a report or an exception
    spc,                \* "call" | "done"
    \* ---- evaluate_thresholds ----
    report,             \* the `stats` argument
    max_nan_ratio,      \* a rational [num, den]
    max_neg_violations,
    issues,
    epc,                \* "call" | "done"
    \* ---- main ----
    groups,             \* args.groups
    interim,            \* INTERIM_DIR: group -> parquet file or Missing
    gi,                 \* position of the for-loop over args.groups
    overall_fail,
    all_reports,        \* group -> [stats, issues], with its insertion order
    written,            \* REPORTS_DIR: the JSON reports written so far
    rpc,                \* "loop" | "exit"
    exit_status,        \* {} while running, {0} or {1} at process exit
    raised              \* "" or the name of the uncaught exception

flatVars == <<raw, sensors, fi, arrays, samples_per_cycle, n_cycles, fpc, flat>>
statVars == <<df, stats, spc>>
evalVars == <<report, max_nan_ratio, max_neg_violations, issues, epc>>
runVars  == <<groups, interim, gi, overall_fail, all_reports, written, rpc,
              exit_status, raised>>
vars     == <<flatVars, statVars, evalVars, runVars>>

-----------------------------------------------------------------------------
(* Bounds of the model.                                                    *)
MaxCycles  == 2
MaxSamples == 2
MaxSensors == 2
MaxRows    == 2
MaxLen     == 5
MaxNum     == 3
MaxCount   == 2
MaxGroups  == 3
MaxRunRows == 1

-----------------------------------------------------------------------------
(* Generic sequence helpers.                                               *)

Range(f) == {f[x] : x \in DOMAIN f}

RECURSIVE SumSeq(_)
SumSeq(s) == IF s = <<>> THEN 0 ELSE Head(s) + SumSeq(Tail(s))

SeqsUpTo(S, n) == UNION {[1..k -> S] : k \in 0..n}

\* Python's Optional[int]: None is {}, the int v is {v}.
None == {}
Some(v) == {v}
Val(o) == CHOOSE v \in o : TRUE

-----------------------------------------------------------------------------
(* load_data.py: _build_flat_df                                            *)

\* Sensor identifiers of the "high" group that the model reads.
SensorIds == {"PS1", "PS2"}

Seeds == {0, 1}

\* What pd.read_csv returns for one raw file: a rectangular float matrix
\* with at least one row and one column, as a sequence of rows.  The entry
\* at (i, j) encodes its own position, so that any misplaced value shows.
Matrices ==
    {[i \in 1..n |-> [j \in 1..c |-> k * 100 + i * 10 + j]] :
        n \in 1..MaxCycles, c \in 1..MaxSamples, k \in Seeds}

\* df.shape
Shape(m) == <<Len(m), Len(m[1])>>

\* df.to_numpy().flatten(): row-major (C order) 1-D vector.
RECURSIVE Flatten(_)
Flatten(m) == IF m = <<>> THEN <<>> ELSE Head(m) \o Flatten(Tail(m))

\* np.arange(a, b): a, a+1, ..., b-1
Arange(a, b) == [k \in 1..(b - a) |-> a + k - 1]

\* np.repeat mistaken for np.tile.
RepeatAsTile(v, k) == [r \in 1..(Len(v) * k) |-> v[((r - 1) % Len(v)) + 1]]

\* np.repeat(v, k): every element k times, in place.
Repeat(v, k) == [r \in 1..(Len(v) * k) |-> v[((r - 1) \div k) + 1]]

\* np.tile(v, n): the whole vector n times.
Tile(v, n) == [r \in 1..(Len(v) * n) |-> v[((r - 1) % Len(v)) + 1]]

NoTable == [status |-> "none", columns |-> <<>>, data |-> <<>>, nrows |-> 0]
Raised(exc) == [NoTable EXCEPT !.status = exc]

\* Lines 46-52: one iteration of `for s in sensors`.
ReadSensor ==
    /\ fpc = "read"
    /\ fi <= Len(sensors)
    /\ LET s == sensors[fi]
           m == raw[s]
       IN  /\ IF samples_per_cycle = None
              THEN /\ samples_per_cycle' = Some(Shape(m)[2])
                   /\ n_cycles' = Some(Shape(m)[1])
              ELSE UNCHANGED <<samples_per_cycle, n_cycles>>
           /\ arrays' = [c \in (DOMAIN arrays) \cup {s} |->
                            IF c = s THEN Flatten(m) ELSE arrays[c]]
    /\ fi' = fi + 1
    /\ UNCHANGED <<raw, sensors, fpc, flat>>
    /\ UNCHANGED <<statVars, evalVars, runVars>>

\* Lines 54-58: the metadata columns.  With `sensors` empty both n_cycles
\* and samples_per_cycle are still None and `n_cycles + 1` raises TypeError.
SynthesizeMeta ==
    /\ fpc = "read"
    /\ fi > Len(sensors)
    /\ IF n_cycles = None
       THEN /\ flat' = Raised("TypeError")
            /\ fpc' = "done"
            /\ UNCHANGED arrays
       ELSE LET cycle      == Repeat(Arange(1, Val(n_cycles) + 1),
                                     Val(samples_per_cycle))
                t_in_cycle == Tile(Arange(0, Val(samples_per_cycle)),
                                   Val(n_cycles))
            IN  /\ arrays' = [c \in (DOMAIN arrays) \cup {"cycle", "t_in_cycle"} |->
                                 CASE c = "t_in_cycle" -> t_in_cycle
                                   [] c = "cycle"      -> cycle
                                   [] OTHER            -> arrays[c]]
                /\ fpc' = "frame"
                /\ UNCHANGED flat
    /\ UNCHANGED <<raw, sensors, fi, samples_per_cycle, n_cycles>>
    /\ UNCHANGED <<statVars, evalVars, runVars>>

\* Lines 61-62: pd.DataFrame(arrays) raises ValueError ("All arrays must be
\* of the same length") unless every vector has the same length; then the
\* columns are selected in the order cycle, t_in_cycle, sensors.
BuildFrame ==
    /\ fpc = "frame"
    /\ LET lens == {Len(arrays[c]) : c \in DOMAIN arrays}
           cols == <<"cycle", "t_in_cycle">> \o sensors
       IN  IF Cardinality(lens) > 1
           THEN flat' = Raised("ValueError")
           ELSE flat' = [status  |-> "table",
                         columns |-> cols,
                         data    |-> [k \in 1..Len(cols) |-> arrays[cols[k]]],
                         nrows   |-> Val(lens)]
    /\ fpc' = "done"
    /\ UNCHANGED <<raw, sensors, fi, arrays, samples_per_cycle, n_cycles>>
    /\ UNCHANGED <<statVars, evalVars, runVars>>


FlatInit ==
    /\ raw \in [SensorIds -> Matrices]
    /\ sensors \in SeqsUpTo(SensorIds, MaxSensors)
    /\ fi = 1
    /\ arrays = <<>>
    /\ samples_per_cycle = None
    /\ n_cycles = None
    /\ fpc = "read"
    /\ flat = NoTable

FlatNext == ReadSensor \/ SynthesizeMeta \/ BuildFrame

-----------------------------------------------------------------------------
(* validate_data.py: basic_stats                                           *)

\* A column identifier is the sequence of its characters, so that
\* s.split("_")[0] is computed and not assumed.
PS1  == <<"P", "S", "1">>
PS2  == <<"P", "S", "2">>
PS3  == <<"P", "S", "3">>
PS4  == <<"P", "S", "4">>
PS5  == <<"P", "S", "5">>
PS6  == <<"P", "S", "6">>
EPS1 == <<"E", "P", "S", "1">>
FS1  == <<"F", "S", "1">>
FS2  == <<"F", "S", "2">>
VS1  == <<"V", "S", "1">>
CE   == <<"C", "E">>
CP   == <<"C", "P">>
SE   == <<"S", "E">>
TS1  == <<"T", "S", "1">>
PS1_raw == <<"P", "S", "1", "_", "r", "a", "w">>
CycleCol    == <<"c", "y", "c", "l", "e">>
TInCycleCol == <<"t", "_", "i", "n", "_", "c", "y", "c", "l", "e">>

NONNEGATIVE_SENSORS ==
    {PS1, PS2, PS3, PS4, PS5, PS6, EPS1, FS1, FS2, VS1, CE, CP, SE}

IQR_MULT == 3

\* A cell is <<>> (NaN / null) or <<v>> (the number v).
NaN == <<>>
Num(v) == <<v>>
IsNa(c) == c = NaN

\* Column `c` of the frame (column names are unique in a parquet file).
Column(d, c) == d.data[CHOOSE k \in 1..Len(d.columns) : d.columns[k] = c]
Dtype(d, c)  == d.dtype[CHOOSE k \in 1..Len(d.columns) : d.columns[k] = c]

\* Lines 36-37.
IsSensorCol(c) == c \notin {CycleCol, TInCycleCol}
get_sensor_cols(d) == SelectSeq(d.columns, IsSensorCol)

\* s.split("_")[0]: the characters before the first underscore.
SplitBase(s) ==
    LET us == {k \in 1..Len(s) : s[k] = "_"}
    IN  IF us = {} THEN s
        ELSE SubSeq(s, 1, (CHOOSE k \in us : \A j \in us : k <= j) - 1)

\* np.issubdtype(dtype, np.number)
IsNumberDtype(t) == t \in {"float64", "int64"}

\* Series.dropna().to_numpy(): the non-null values, in order.
RECURSIVE DropNa(_)
DropNa(col) ==
    IF col = <<>> THEN <<>>
    ELSE IF IsNa(Head(col)) THEN DropNa(Tail(col))
         ELSE <<Head(col)[1]>> \o DropNa(Tail(col))

\* Insert v into the ascending sequence s.
RECURSIVE InsertAsc(_, _)
InsertAsc(s, v) ==
    IF s = <<>> THEN <<v>>
    ELSE IF v <= Head(s) THEN <<v>> \o s
         ELSE <<Head(s)>> \o InsertAsc(Tail(s), v)

RECURSIVE SortAsc(_)
SortAsc(x) == IF x = <<>> THEN <<>> ELSE InsertAsc(SortAsc(Tail(x)), Head(x))

\* np.percentile(x, p), default method "linear", times 100 (exact in
\* integers): virtual index p/100 * (n - 1), interpolate between the two
\* sorted neighbours.
Percentile100(x, p) ==
    LET srt  == SortAsc(x)
        n    == Len(x)
        pos  == p * (n - 1)
        prev == pos \div 100
        nxt  == IF prev + 1 > n - 1 THEN n - 1 ELSE prev + 1
        g    == pos % 100
    IN  100 * srt[prev + 1] + g * (srt[nxt + 1] - srt[prev + 1])

\* `<=` and `>=` written for `<` and `>`.
IsOutlierOrOnBound(v, lo100, hi100) == (100 * v <= lo100) \/ (100 * v >= hi100)

\* Whether the value v lies outside [lo, hi] (bounds are times 100).
IsOutlier(v, lo100, hi100) == (100 * v < lo100) \/ (100 * v > hi100)

\* Lines 50-58: one column's IQR outlier count.
OutlierCount(col) ==
    LET x == DropNa(col)
    IN  IF Len(x) = 0 THEN 0
        ELSE LET q1  == Percentile100(x, 25)
                 q3  == Percentile100(x, 75)
                 iqr == q3 - q1
                 lo  == q1 - IQR_MULT * iqr
                 hi  == q3 + IQR_MULT * iqr
             IN  Cardinality({k \in 1..Len(x) : IsOutlier(x[k], lo, hi)})

\* `<= 0` written for `< 0`.
IsNonPositive(c) == ~IsNa(c) /\ c[1] <= 0

\* (df[s] < 0).sum(): a NaN compares False.
IsNegative(c) == ~IsNa(c) /\ c[1] < 0
CountNegative(col) == Cardinality({k \in 1..Len(col) : IsNegative(col[k])})

\* Lines 63-67: one column's non-negativity violations.
NegViolations(d, s) ==
    LET base == SplitBase(s)
    IN  IF base \in NONNEGATIVE_SENSORS THEN CountNegative(Column(d, s)) ELSE 0

\* df[s].isna().sum()
CountNa(col) == Cardinality({k \in 1..Len(col) : IsNa(col[k])})

\* sorted(items, key=count, reverse=True): stable, ties keep dict order.
RECURSIVE InsertDesc(_, _)
InsertDesc(s, e) ==
    IF s = <<>> THEN <<e>>
    ELSE IF e.n >= Head(s).n THEN <<e>> \o s
         ELSE <<Head(s)>> \o InsertDesc(Tail(s), e)

RECURSIVE SortDescStable(_)
SortDescStable(items) ==
    IF items = <<>> THEN <<>>
    ELSE InsertDesc(SortDescStable(Tail(items)), Head(items))

\* dict(sorted(d.items(), key=lambda kv: kv[1], reverse=True)[:10])
Top10(cols, count) ==
    LET items == [k \in 1..Len(cols) |-> [col |-> cols[k], n |-> count[cols[k]]]]
        srt   == SortDescStable(items)
    IN  SubSeq(srt, 1, IF Len(srt) < 10 THEN Len(srt) ELSE 10)

StatsRaised(exc) == [exc |-> exc]

\* Lines 39-81.
basic_stats(d, group) ==
    LET sens         == get_sensor_cols(d)
        n_rows       == d.nrows
        n_cols       == Len(d.columns)
        dtypes_ok    == \A k \in 1..Len(sens) : IsNumberDtype(Dtype(d, sens[k]))
        nans_per_col == [c \in Range(sens) |-> CountNa(Column(d, c))]
        total_nans   == SumSeq([k \in 1..Len(sens) |-> nans_per_col[sens[k]]])
        outlier_counts == [c \in Range(sens) |-> OutlierCount(Column(d, c))]
        neg_violations == [c \in Range(sens) |-> NegViolations(d, c)]
    IN  IF Len(sens) * n_rows = 0
        THEN StatsRaised("ZeroDivisionError")
        ELSE [exc            |-> "",
              group          |-> group,
              shape          |-> <<n_rows, n_cols>>,
              n_sensors      |-> Len(sens),
              dtypes_numeric |-> dtypes_ok,
              nan_total      |-> total_nans,
              nan_ratio      |-> [num |-> total_nans, den |-> Len(sens) * n_rows],
              nan_by_col_top10 |-> Top10(sens, nans_per_col),
              neg_violations_total |->
                  SumSeq([k \in 1..Len(sens) |-> neg_violations[sens[k]]]),
              neg_violations_by_col_top10 |-> Top10(sens, neg_violations),
              outliers_iqr_total |->
                  SumSeq([k \in 1..Len(sens) |-> outlier_counts[sens[k]]]),
              outliers_iqr_by_col_top10 |-> Top10(sens, outlier_counts)]


\* A DataFrame as read from a *_flat.parquet file: the two metadata columns
\* (one cycle of n samples) followed by the sensor columns `cols`.
Frame(cols, n, dtypes, cells) ==
    [columns |-> <<CycleCol, TInCycleCol>> \o cols,
     dtype   |-> <<"int64", "int64">> \o dtypes,
     data    |-> <<[r \in 1..n |-> Num(1)], [r \in 1..n |-> Num(r - 1)]>> \o cells,
     nrows   |-> n]

\* The sequences that keep some of the elements of s, in their order
\* (column names of a frame are unique).
RECURSIVE SubSeqs(_)
SubSeqs(s) ==
    IF s = <<>> THEN {<<>>}
    ELSE LET rest == SubSeqs(Tail(s))
         IN  rest \cup {<<Head(s)>> \o r : r \in rest}

StatColumns == <<PS1, TS1, PS1_raw>>
StatCells   == {NaN, Num(-1), Num(0)}

\* The float frames with the sensor columns `cols` and n rows.
StatFrames(cols, n) ==
    {Frame(cols, n, [k \in 1..Len(cols) |-> "float64"], cells) :
        cells \in [1..Len(cols) -> [1..n -> StatCells]]}

IqrCells == {NaN, Num(-9), Num(0), Num(1), Num(9)}

\* The column of the outlier example: [1, 2, 3, 4, 5, 100].
ExampleColumn == <<Num(1), Num(2), Num(3), Num(4), Num(5), Num(100)>>

\* The one-column float frame holding `col`.
IqrFrame(col) == Frame(<<PS1>>, Len(col), <<"float64">>, <<col>>)

NoStats == [exc |-> "pending"]

\* The call stats = basic_stats(df, g).
ComputeStats ==
    /\ spc = "call"
    /\ stats' = basic_stats(df, "high")
    /\ spc' = "done"
    /\ UNCHANGED df
    /\ UNCHANGED <<flatVars, evalVars, runVars>>

-----------------------------------------------------------------------------
(* validate_data.py: evaluate_thresholds                                   *)

\* `>=` written for `>`.
RatGe(a, b) == a.num * b.den >= b.num * a.den

\* a > b for rationals with positive denominators.
RatGt(a, b) == a.num * b.den > b.num * a.den

\* Lines 95-103.  An issue keeps the two numbers its message cites; the
\* rendering of the message text is not modelled.
evaluate_thresholds(st, maxNan, maxNeg) ==
    (IF ~st.dtypes_numeric
     THEN <<[kind |-> "dtype", actual |-> <<>>, limit |-> <<>>]>>
     ELSE <<>>)
    \o
    (IF RatGt(st.nan_ratio, maxNan)
     THEN <<[kind |-> "nan", actual |-> <<st.nan_ratio>>, limit |-> <<maxNan>>]>>
     ELSE <<>>)
    \o
    (IF st.neg_violations_total > maxNeg
     THEN <<[kind |-> "neg", actual |-> <<st.neg_violations_total>>,
             limit |-> <<maxNeg>>]>>
     ELSE <<>>)

\* Ratios the evaluator is tried on: n, n/1000 and n/10000.
Ratios == {[num |-> n, den |-> d] : n \in 0..MaxNum, d \in {1, 1000, 10000}}

\* The keys of a report that a threshold could read.
Reports ==
    [dtypes_numeric : BOOLEAN, nan_ratio : Ratios,
     neg_violations_total : 0..MaxCount, outliers_iqr_total : 0..MaxCount]

EvaluateCall ==
    /\ epc = "call"
    /\ issues' = evaluate_thresholds(report, max_nan_ratio, max_neg_violations)
    /\ epc' = "done"
    /\ UNCHANGED <<report, max_nan_ratio, max_neg_violations>>
    /\ UNCHANGED <<flatVars, statVars, runVars>>

-----------------------------------------------------------------------------
(* validate_data.py: load_group_df and main                                *)

GroupNames == {"high", "mid", "low"}

\* A path under INTERIM_DIR at which no file exists.
Missing == [columns |-> <<>>, dtype |-> <<>>, data |-> <<>>, nrows |-> -1]

\* argparse defaults of --max-nan-ratio (0.001) and --max-neg-violations.
DefaultMaxNanRatio == [num |-> 1, den |-> 1000]
DefaultMaxNegViolations == 0

RunCells == {NaN, Num(-1), Num(0)}

\* Parquet files a run may find: zero or one sensor column.
RunFrames ==
    {Frame(<<>>, n, <<>>, <<>>) : n \in 0..MaxRunRows}
    \cup
    UNION {{Frame(<<PS1>>, n, <<t>>, <<col>>) : col \in [1..n -> RunCells]} :
           n \in 0..MaxRunRows, t \in {"float64", "object"}}

\* A parquet file that lacks the t_in_cycle column.
NoOffsetFrame ==
    [columns |-> <<CycleCol, PS1>>, dtype |-> <<"int64", "float64">>,
     data |-> <<<<Num(1)>>, <<Num(0)>>>>, nrows |-> 1]

\* Lines 24-34: the frame, or the exception raised.
load_group_df(dir, group) ==
    IF dir[group] = Missing THEN [exc |-> "FileNotFoundError", df |-> Missing]
    ELSE IF {CycleCol, TInCycleCol} \ Range(dir[group].columns) # {}
         THEN [exc |-> "ValueError", df |-> Missing]
         ELSE [exc |-> "", df |-> dir[group]]

\* all_reports[g] = value: a dict keeps a key's first position.
DictPut(dict, key, value) ==
    IF \E k \in 1..Len(dict) : dict[k].key = key
    THEN [k \in 1..Len(dict) |->
             IF dict[k].key = key THEN [key |-> key, value |-> value] ELSE dict[k]]
    ELSE Append(dict, [key |-> key, value |-> value])

\* An uncaught exception: the interpreter prints the traceback and the
\* process ends with status 1.
Uncaught(exc) ==
    /\ raised' = exc
    /\ exit_status' = Some(1)
    /\ rpc' = "exit"
    /\ UNCHANGED <<gi, overall_fail, all_reports, written>>

\* Lines 118-139: one iteration of `for g in args.groups`.  The optional
\* HTML profile (lines 130-131) writes no state that is modelled here.
ValidateGroup ==
    /\ rpc = "loop"
    /\ gi <= Len(groups)
    /\ LET g      == groups[gi]
           loaded == load_group_df(interim, g)
           st     == basic_stats(loaded.df, g)
           iss    == evaluate_thresholds(st, DefaultMaxNanRatio,
                                         DefaultMaxNegViolations)
           rep    == [stats |-> st, issues |-> iss]
       IN  IF loaded.exc # "" THEN Uncaught(loaded.exc)
           ELSE IF st.exc # "" THEN Uncaught(st.exc)
           ELSE /\ written' = [f \in (DOMAIN written) \cup {g} |->
                                  IF f = g THEN rep ELSE written[f]]
                /\ overall_fail' = (overall_fail \/ iss # <<>>)
                /\ all_reports' = DictPut(all_reports, g, rep)
                /\ gi' = gi + 1
                /\ UNCHANGED <<rpc, exit_status, raised>>
    /\ UNCHANGED <<groups, interim>>
    /\ UNCHANGED <<flatVars, statVars, evalVars>>

\* Lines 141-147: the summary and sys.exit(1 if overall_fail else 0).
SummaryAndExit ==
    /\ rpc = "loop"
    /\ gi > Len(groups)
    /\ exit_status' = Some(IF overall_fail THEN 1 ELSE 0)
    /\ rpc' = "exit"
    /\ UNCHANGED <<groups, interim, gi, overall_fail, all_reports, written, raised>>
    /\ UNCHANGED <<flatVars, statVars, evalVars>>

-----------------------------------------------------------------------------
(* The specifications.                                                     *)

FlatIdle ==
    /\ raw = <<>> /\ sensors = <<>> /\ fi = 1 /\ arrays = <<>>
    /\ samples_per_cycle = None /\ n_cycles = None
    /\ fpc = "done" /\ flat = NoTable

StatIdle == df = Missing /\ stats = NoStats /\ spc = "done"

EvalIdle ==
    /\ report = <<>> /\ max_nan_ratio = DefaultMaxNanRatio
    /\ max_neg_violations = DefaultMaxNegViolations
    /\ issues = <<>> /\ epc = "done"

RunIdle ==
    /\ groups = <<>> /\ interim = <<>> /\ gi = 1 /\ overall_fail = FALSE
    /\ all_reports = <<>> /\ written = <<>> /\ rpc = "exit"
    /\ exit_status = None /\ raised = ""

StatsInit ==
    /\ \E cols \in SubSeqs(StatColumns), n \in 0..MaxRows :
           df \in StatFrames(cols, n)
    /\ stats = NoStats
    /\ spc = "call"

IqrInit ==
    /\ \E col \in SeqsUpTo(IqrCells, MaxLen) \cup {ExampleColumn} :
           df = IqrFrame(col)
    /\ stats = NoStats
    /\ spc = "call"

EvalInit ==
    /\ report \in Reports
    /\ max_nan_ratio \in Ratios
    /\ max_neg_violations \in 0..MaxCount
    /\ issues = <<>>
    /\ epc = "call"

RunInit ==
    /\ groups \in SeqsUpTo(GroupNames, MaxGroups) \ {<<>>}
    /\ interim \in [GroupNames -> RunFrames \cup {Missing, NoOffsetFrame}]
    /\ gi = 1
    /\ overall_fail = FALSE
    /\ all_reports = <<>>
    /\ written = <<>>
    /\ rpc = "loop"
    /\ exit_status = None
    /\ raised = ""

InitFlat  == FlatInit /\ StatIdle /\ EvalIdle /\ RunIdle
InitStats == FlatIdle /\ StatsInit /\ EvalIdle /\ RunIdle
InitIqr   == FlatIdle /\ IqrInit /\ EvalIdle /\ RunIdle
InitEval  == FlatIdle /\ StatIdle /\ EvalInit /\ RunIdle
InitRun   == FlatIdle /\ StatIdle /\ EvalIdle /\ RunInit

StatsNext == ComputeStats
EvalNext  == EvaluateCall
RunNext   == ValidateGroup \/ SummaryAndExit

SpecFlat  == InitFlat /\ [][FlatNext]_vars
SpecStats == InitStats /\ [][StatsNext]_vars
SpecIqr   == InitIqr /\ [][StatsNext]_vars
SpecEval  == InitEval /\ [][EvalNext]_vars
SpecRun   == InitRun /\ [][RunNext]_vars

-----------------------------------------------------------------------------
(* Properties of _build_flat_df (checked under SpecFlat).                  *)

\* The canonical shape: the shape of the first sensor's matrix.
CanonicalShape == Shape(raw[sensors[1]])

\* Positions of the later sensors whose matrix shape differs from it.
MismatchedAt ==
    {k \in 2..Len(sensors) : Shape(raw[sensors[k]]) # CanonicalShape}

SameShapes == sensors # <<>> /\ MismatchedAt = {}

\* C1: when a later sensor's matrix shape differs from the first sensor's
\* (in rows or in columns, equal element count included), the call ends in
\* a ShapeMismatchError and returns no table.
C1_ShapeMismatchRejected ==
    (fpc = "done" /\ sensors # <<>> /\ MismatchedAt # {})
        => (flat.status = "ShapeMismatchError" /\ flat.status # "table")

\* C2: for a non-empty list of equally shaped matrices (n_cycles,
\* samples_per_cycle) the table has n_cycles * samples_per_cycle rows, row r
\* (0-based) holds cycle = r div samples_per_cycle + 1 and t_in_cycle =
\* r mod samples_per_cycle, and the columns are cycle, t_in_cycle, then the
\* sensors in list order.
C2_MetaColumns ==
    (fpc = "done" /\ SameShapes) =>
        LET n == CanonicalShape[1]
            c == CanonicalShape[2]
        IN  /\ flat.status = "table"
            /\ flat.nrows = n * c
            /\ flat.columns = <<"cycle", "t_in_cycle">> \o sensors
            /\ Len(flat.data) = Len(sensors) + 2
            /\ \A k \in 1..Len(flat.data) : Len(flat.data[k]) = n * c
            /\ \A r \in 0..(n * c - 1) :
                  /\ flat.data[1][r + 1] = (r \div c) + 1
                  /\ flat.data[2][r + 1] = r % c
            /\ \A i \in 1..n, j \in 0..(c - 1) :
                  Cardinality({r \in 1..flat.nrows :
                      flat.data[1][r] = i /\ flat.data[2][r] = j}) = 1

C2_Witness ==
    /\ fpc = "done" /\ SameShapes /\ flat.status = "table"
    /\ Len(sensors) = 2 /\ sensors[1] # sensors[2]
    /\ CanonicalShape = <<2, 2>>
    /\ flat.data[1] = <<1, 1, 2, 2>> /\ flat.data[2] = <<0, 1, 0, 1>>

\* Every sensor column of the table holds, in each row, the entry of the
\* sensor's matrix that the row's cycle and t_in_cycle address.
RoundTrips ==
    \A k \in 1..Len(sensors) :
        LET m == raw[sensors[k]]
        IN  /\ flat.nrows = Len(m) * Len(m[1])
            /\ \A r \in 1..flat.nrows :
                  LET cyc == flat.data[1][r]
                      t   == flat.data[2][r]
                  IN  /\ cyc \in 1..Len(m)
                      /\ t + 1 \in 1..Len(m[cyc])
                      /\ flat.data[k + 2][r] = m[cyc][t + 1]

\* C3: in every table the call returns, the value of sensor column s in a
\* row equals M_s[cycle - 1][t_in_cycle] (0-based), M_s being the matrix read
\* for s, so the column rebuilds M_s from the metadata columns alone.
C3_RoundTrip == (fpc = "done" /\ flat.status = "table") => RoundTrips

\* The round trip does hold for a non-empty list of equally shaped matrices.
RoundTripOnSameShapes ==
    (fpc = "done" /\ SameShapes) => (flat.status = "table" /\ RoundTrips)

\* C10: an empty sensor list gives a table with exactly the two metadata
\* columns, and no failure.
C10_EmptyListGivesMetaTable ==
    (fpc = "done" /\ sensors = <<>>)
        => (flat.status = "table" /\ flat.columns = <<"cycle", "t_in_cycle">>)

-----------------------------------------------------------------------------
(* Properties of basic_stats (checked under SpecStats and SpecIqr).        *)

SensorColumns(d) ==
    {d.columns[k] : k \in 1..Len(d.columns)} \ {CycleCol, TInCycleCol}

\* The count a top-10 listing reports for column c.
Reported(listing, c) ==
    LET e == CHOOSE x \in Range(listing) : x.col = c IN e.n

IsReported(listing, c) == \E x \in Range(listing) : x.col = c

Negatives(col) == {k \in 1..Len(col) : col[k] # NaN /\ col[k][1] < 0}

\* C4: with zero sensor columns or zero rows basic_stats returns a report
\* whose nan_ratio is exactly 0; it does not raise.
C4_ZeroDenominatorReportsZero ==
    (spc = "done" /\ (SensorColumns(df) = {} \/ df.nrows = 0))
        => (stats.exc = "" /\ stats.nan_ratio.num = 0)

\* C8 as stated: the reported negative-violation count of a sensor column is
\* the number of entries < 0 when the column's identifier is in the
\* allow-list and 0 when it is not; neg_violations_total is their sum.
C8_LiteralAllowList ==
    (spc = "done" /\ stats.exc = "") =>
        LET cols == get_sensor_cols(df)
            want == [c \in SensorColumns(df) |->
                        IF c \in NONNEGATIVE_SENSORS
                        THEN Cardinality(Negatives(Column(df, c))) ELSE 0]
        IN  /\ \A c \in SensorColumns(df) :
                  /\ IsReported(stats.neg_violations_by_col_top10, c)
                  /\ Reported(stats.neg_violations_by_col_top10, c) = want[c]
            /\ stats.neg_violations_total =
                   SumSeq([k \in 1..Len(cols) |-> want[cols[k]]])

\* The identifier c is an allow-list name, or one followed by "_" and more.
\* (No allow-list name holds an underscore, so this is: the part of c before
\* its first underscore is in the allow-list.)
HasAllowedPrefix(c) ==
    \E a \in NONNEGATIVE_SENSORS :
        \/ c = a
        \/ /\ Len(c) > Len(a)
           /\ SubSeq(c, 1, Len(a)) = a
           /\ c[Len(a) + 1] = "_"

\* C8 amended: the reported negative-violation count of a sensor column is
\* the number of entries < 0 when the part of the column's identifier before
\* its first underscore is in the allow-list, and 0 otherwise;
\* neg_violations_total is the sum of these counts.
C8_PrefixAllowList ==
    (spc = "done" /\ stats.exc = "") =>
        LET cols == get_sensor_cols(df)
            want == [c \in SensorColumns(df) |->
                        IF HasAllowedPrefix(c)
                        THEN Cardinality(Negatives(Column(df, c))) ELSE 0]
        IN  /\ \A c \in SensorColumns(df) :
                  /\ IsReported(stats.neg_violations_by_col_top10, c)
                  /\ Reported(stats.neg_violations_by_col_top10, c) = want[c]
            /\ stats.neg_violations_total =
                   SumSeq([k \in 1..Len(cols) |-> want[cols[k]]])

C8_Witness ==
    /\ spc = "done" /\ stats.exc = ""
    /\ SensorColumns(df) = {PS1, TS1, PS1_raw}
    /\ Negatives(Column(df, TS1)) # {}
    /\ Reported(stats.neg_violations_by_col_top10, TS1) = 0
    /\ Reported(stats.neg_violations_by_col_top10, PS1_raw) = 2
    /\ Reported(stats.neg_violations_by_col_top10, PS1) = 1
    /\ \E k \in 1..df.nrows : Column(df, PS1)[k] = Num(0)
    /\ stats.neg_violations_total = 3

\* Order statistics by counting: the k-th smallest (k = 0 the minimum) of
\* the non-missing values of a column.
Present(col) == {k \in 1..Len(col) : col[k] # NaN}

KthSmallest(col, k) ==
    CHOOSE v \in {col[i][1] : i \in Present(col)} :
        /\ Cardinality({i \in Present(col) : col[i][1] < v}) <= k
        /\ Cardinality({i \in Present(col) : col[i][1] <= v}) > k

\* Four times the p-th quartile (p = 1 or 3) by linear interpolation between
\* the closest ranks: rank h = p/4 * (n - 1), between floor(h) and floor(h)+1.
Quartile4(col, p) ==
    LET n   == Cardinality(Present(col))
        h4  == p * (n - 1)
        lo  == h4 \div 4
        up  == IF lo + 1 <= n - 1 THEN lo + 1 ELSE lo
    IN  4 * KthSmallest(col, lo)
          + (h4 % 4) * (KthSmallest(col, up) - KthSmallest(col, lo))

\* The outliers of a column under the rule with k = 3.
OutliersOf(col) ==
    IF Present(col) = {} THEN {}
    ELSE LET q1  == Quartile4(col, 1)
             q3  == Quartile4(col, 3)
             iqr == q3 - q1
         IN  {i \in Present(col) :
                 \/ 4 * col[i][1] < q1 - 3 * iqr
                 \/ 4 * col[i][1] > q3 + 3 * iqr}

\* C9: the outlier count reported for a sensor column is the number of its
\* non-missing values strictly below q1 - 3*iqr or strictly above
\* q3 + 3*iqr (q1, q3 the quartiles by linear interpolation between closest
\* ranks); a column without a non-missing value reports 0; the column
\* [1,2,3,4,5,100] reports 1.
C9_IqrOutlierCount ==
    (spc = "done" /\ stats.exc = "") =>
        /\ \A c \in SensorColumns(df) :
              /\ IsReported(stats.outliers_iqr_by_col_top10, c)
              /\ Reported(stats.outliers_iqr_by_col_top10, c)
                     = Cardinality(OutliersOf(Column(df, c)))
              /\ Present(Column(df, c)) = {}
                     => Reported(stats.outliers_iqr_by_col_top10, c) = 0
        /\ Column(df, PS1) = ExampleColumn
               => Reported(stats.outliers_iqr_by_col_top10, PS1) = 1

\* A missing value is dropped and a value equal to the upper bound is not
\* counted: [0, 0, NaN, 0, 9] has q1 = 0, q3 = 2.25 and bounds [-6.75, 9].
C9_Witness ==
    /\ spc = "done" /\ stats.exc = ""
    /\ Column(df, PS1) = <<Num(0), Num(0), NaN, Num(0), Num(9)>>
    /\ Reported(stats.outliers_iqr_by_col_top10, PS1) = 0

-----------------------------------------------------------------------------
(* Properties of evaluate_thresholds (checked under SpecEval).             *)

IssueRank(kind) == CASE kind = "dtype" -> 1 [] kind = "nan" -> 2 [] kind = "neg" -> 3

\* C7: the issues come in the order (non-numeric dtype, NaN ratio, negative
\* violations); the first is present iff dtypes_numeric is false, the second
\* iff nan_ratio > max_nan_ratio, the third iff neg_violations_total >
\* max_neg_violations; nothing else is in the list, whatever the outlier
\* count.
C7_IssueList ==
    epc = "done" =>
        LET kinds == {issues[k].kind : k \in 1..Len(issues)}
        IN  /\ kinds \subseteq {"dtype", "nan", "neg"}
            /\ \A i, j \in 1..Len(issues) :
                  i < j => IssueRank(issues[i].kind) < IssueRank(issues[j].kind)
            /\ ("dtype" \in kinds) <=> ~report.dtypes_numeric
            /\ ("nan" \in kinds) <=>
                   (report.nan_ratio.num * max_nan_ratio.den
                        > max_nan_ratio.num * report.nan_ratio.den)
            /\ ("neg" \in kinds) <=>
                   (report.neg_violations_total > max_neg_violations)

\* At the limits exactly (0.002 against 2/1000, 2 against 2) and with
\* outliers reported, the list is empty.
C7_Witness ==
    /\ epc = "done"
    /\ report.dtypes_numeric
    /\ report.nan_ratio = [num |-> 2, den |-> 1000]
    /\ max_nan_ratio = [num |-> 2, den |-> 1000]
    /\ report.neg_violations_total = 2 /\ max_neg_violations = 2
    /\ report.outliers_iqr_total = 2
    /\ issues = <<>>

-----------------------------------------------------------------------------
(* Properties of main (checked under SpecRun).                             *)

Selected == Range(groups)

Loadable(g) == load_group_df(interim, g).exc = ""

\* A frame basic_stats accepts: at least one sensor column and one row.
Healthy(g) ==
    /\ Loadable(g)
    /\ SensorColumns(interim[g]) # {}
    /\ interim[g].nrows > 0

\* C5: when the flat table of a selected group was never produced, every
\* other selected group is still loaded, evaluated and gets its report
\* written.  (Stated for runs in which every other selected group has a
\* frame with at least one sensor column and one row.)
C5_MissingGroupOnly ==
    (/\ rpc = "exit"
     /\ \E g \in Selected : interim[g] = Missing
     /\ \A g \in Selected : interim[g] = Missing \/ Healthy(g))
        => \A g \in Selected : Healthy(g) => g \in DOMAIN written

\* C6: a run whose selected groups all have a loadable flat table processes
\* every selected group and exits with 0 iff every selected group's issue
\* list is empty, with 1 otherwise.
C6_ExitStatus ==
    (rpc = "exit" /\ \A g \in Selected : Loadable(g)) =>
        /\ \A g \in Selected : g \in DOMAIN written
        /\ exit_status \in {Some(0), Some(1)}
        /\ exit_status = Some(0) <=>
               \A g \in Selected :
                   g \in DOMAIN written /\ written[g].issues = <<>>

\* The exit status does follow the issue lists when every selected group's
\* frame has at least one sensor column and one row.
ExitStatusOnHealthyFrames ==
    (rpc = "exit" /\ \A g \in Selected : Healthy(g)) =>
        /\ raised = ""
        /\ \A g \in Selected : g \in DOMAIN written
        /\ exit_status = Some(0) <=> \A g \in Selected : written[g].issues = <<>>
        /\ exit_status = Some(1) <=> \E g \in Selected : written[g].issues # <<>>

=============================================================================
